---- MODULE Spec2Model ----
(***************************************************************************)
(* A model of scripts/translate_all_mdx.py: the line classifier (pass 1),  *)
(* the batch translation coordinator with its cache (pass 2) and the       *)
(* reconstruction of the document (pass 3), and the loop over the          *)
(* documents of translate_all_mdx_files.                                   *)
(*                                                                         *)
(* Spec is translate_mdx on one document, SpecRuns the script run again on *)
(* the same document, SpecParse translate_mdx on every short sequence of   *)
(* lines with a provider that does not fail, SpecFiles the loop over the   *)
(* documents of a directory.                                               *)
(*                                                                         *)
(* A Python string is a sequence of characters; a character is a one       *)
(* element token.  Three characters that a TLA+ string cannot hold or that *)
(* are not ASCII are named tokens: BQ (the backtick), GREEN and UFO (two   *)
(* of the decorative glyphs).                                              *)
(***************************************************************************)
EXTENDS Integers, Sequences, FiniteSets, TLC

\* ------------------------------------------------------------ characters

NL == "\n"
TAB == "\t"
QUOTE == "\""
BQ == "BACKTICK"
GREEN == "U+1F7E2"
UFO == "U+1F6F8"

Lower == {"a","b","c","d","e","f","g","h","i","j","k","l","m",
          "n","o","p","q","r","s","t","u","v","w","x","y","z"}
Upper == {"A","B","C","D","E","F","G","H","I","J","K","L","M",
          "N","O","P","Q","R","S","T","U","V","W","X","Y","Z"}
Digits == {"0","1","2","3","4","5","6","7","8","9"}
Whitespace == {" ", TAB, NL}
\* the character class [🟡🟢🔴🟣🟠🔵🟤⚪⚫🛸], of which the model's alphabet holds two
GlyphChars == {GREEN, UFO}

isalpha(c) == c \in Lower \cup Upper
isalnum(c) == isalpha(c) \/ c \in Digits

\* Python's None, and the re.error that escapes translate_mdx: neither is a
\* sequence of characters
None == <<"None">>
Raised == <<"re.error">>

\* ------------------------------------------------------- string methods

Min(S) == CHOOSE x \in S : \A y \in S : x <= y

Take(s, n) == SubSeq(s, 1, n)
Drop(s, n) == SubSeq(s, n + 1, Len(s))

StartsWithAt(s, p, k) ==
    /\ k >= 1
    /\ k + Len(p) - 1 <= Len(s)
    /\ \A j \in 1..Len(p) : s[k + j - 1] = p[j]

startswith(s, p) == StartsWithAt(s, p, 1)
endswith(s, p) == Len(p) <= Len(s) /\ StartsWithAt(s, p, Len(s) - Len(p) + 1)

\* the first index >= from at which p occurs in s, 0 when there is none
find(s, p, from) ==
    LET hits == {k \in from..(Len(s) - Len(p) + 1) : StartsWithAt(s, p, k)}
    IN  IF hits = {} THEN 0 ELSE Min(hits)

contains(s, p) == find(s, p, 1) # 0

\* the length of the run of characters of class C that starts at index k
RunLen(s, k, C) ==
    IF k > Len(s) THEN 0 ELSE
    LET ends == {n \in 0..(Len(s) - k + 1) :
                    /\ \A j \in 0..(n - 1) : s[k + j] \in C
                    /\ (k + n > Len(s) \/ s[k + n] \notin C)}
    IN  Min(ends)

lstrip(s) == Drop(s, RunLen(s, 1, Whitespace))
rstrip(s) ==
    LET keep == {n \in 0..Len(s) :
                    /\ \A j \in (n + 1)..Len(s) : s[j] \in Whitespace
                    /\ (n = 0 \/ s[n] \notin Whitespace)}
    IN  Take(s, Min(keep))
strip(s) == rstrip(lstrip(s))

\* len(s.split()): the number of maximal runs of non-whitespace
word_count(s) ==
    Cardinality({k \in 1..Len(s) :
        s[k] \notin Whitespace /\ (k = 1 \/ s[k - 1] \in Whitespace)})

\* sum(1 for c in s if c.isalpha())
alpha_count(s) == Cardinality({k \in 1..Len(s) : isalpha(s[k])})

\* the pieces of s from index start on, cut at the occurrences of a separator
\* of length n, taken left to right without overlap; at is the set of the
\* indices at which the separator occurs in s
RECURSIVE split_at(_, _, _, _)
split_at(s, n, at, start) ==
    LET next == {k \in at : k >= start}
    IN  IF next = {} THEN <<SubSeq(s, start, Len(s))>>
        ELSE <<SubSeq(s, start, Min(next) - 1)>> \o split_at(s, n, at, Min(next) + n)

\* s.split(sep)
split(s, sep) ==
    split_at(s, Len(sep), {k \in 1..(Len(s) - Len(sep) + 1) : StartsWithAt(s, sep, k)}, 1)

RECURSIVE join(_, _)
join(parts, sep) ==
    IF parts = << >> THEN << >>
    ELSE IF Len(parts) = 1 THEN parts[1]
    ELSE parts[1] \o sep \o join(Tail(parts), sep)

\* str.replace(old, new): every non-overlapping occurrence, left to right
RECURSIVE replace(_, _, _)
replace(s, old, new) ==
    LET k == find(s, old, 1)
    IN  IF k = 0 THEN s
        ELSE Take(s, k - 1) \o new \o replace(Drop(s, k - 1 + Len(old)), old, new)

\* -------------------------------------------------- program constants

BATCH_SEPARATOR ==
    <<NL,"|","|","|","T","R","A","N","S","L","A","T","E","_",
      "S","P","L","I","T","|","|","|",NL>>

\* range(0, len(texts), 50)
BATCH_SIZE == 50
\* len(content) > 10
JSX_CONTENT_MIN == 10
\* len(text_clean) > 3
HEADER_TEXT_MIN == 3
\* alpha_count >= 10
ALPHA_MIN == 10
\* #{1,6}
HEADER_MAX_HASHES == 6

jsx_skip_components ==
    {<<"I","m","a","g","e">>, <<"i","m","g">>, <<"v","i","d","e","o">>,
     <<"a","u","d","i","o">>}
html_content_tags ==
    {<<"p","r","e">>, <<"s","p","a","n">>, <<"d","i","v">>, <<"p">>}
text_block_langs ==
    {<<"t","e","x","t">>, <<"m","d">>, <<"m","a","r","k","d","o","w","n">>}
list_prefixes ==
    << <<"-"," ">>, <<"*"," ">>, <<"1","."," ">>, <<"2","."," ">>,
       <<"3","."," ">>, <<"4","."," ">>, <<"5","."," ">> >>
url_prefixes ==
    {<<"h","t","t","p",":","/","/">>, <<"h","t","t","p","s",":","/","/">>,
     <<"w","w","w",".">>}
markdown_only ==
    {<<"<","b","r"," ","/",">">>, <<"<","b","r","/",">">>, <<"-","-","-">>}
FENCE == <<BQ,BQ,BQ>>
DASHES == <<"-","-","-">>
TITLE_KEY == <<"t","i","t","l","e",":">>
EXPORT == <<"e","x","p","o","r","t">>

\* --------------------------------------------------- regular expressions

\* re.search(r'title:\s*"([^"]*)"', line): whether it matches, and group 1
title_search(line) ==
    LET cands == {k \in 1..Len(line) :
            /\ StartsWithAt(line, TITLE_KEY, k)
            /\ LET q == k + Len(TITLE_KEY) + RunLen(line, k + Len(TITLE_KEY), Whitespace)
               IN  /\ q <= Len(line)
                   /\ line[q] = QUOTE
                   /\ find(line, <<QUOTE>>, q + 1) # 0}
    IN  IF cands = {} THEN [found |-> FALSE, group1 |-> << >>]
        ELSE LET k == Min(cands)
                 q == k + Len(TITLE_KEY) + RunLen(line, k + Len(TITLE_KEY), Whitespace)
                 e == find(line, <<QUOTE>>, q + 1)
             IN  [found |-> TRUE, group1 |-> SubSeq(line, q + 1, e - 1)]

\* re.match(r'^([<glyphs>]\s*)', title): group 1, or "" when there is no match
emoji_match(title) ==
    IF title # << >> /\ title[1] \in GlyphChars
    THEN Take(title, 1 + RunLen(title, 2, Whitespace))
    ELSE << >>

\* re.sub(r'[<glyphs>]', '', text)
remove_glyphs(text) == SelectSeq(text, LAMBDA c : c \notin GlyphChars)

\* re.match(r'```(\w+)', stripped): group 1, or None
code_lang_match(stripped) ==
    LET n == RunLen(stripped, Len(FENCE) + 1, Lower \cup Upper \cup Digits \cup {"_"})
    IN  IF startswith(stripped, FENCE) /\ n >= 1
        THEN SubSeq(stripped, Len(FENCE) + 1, Len(FENCE) + n)
        ELSE None

\* jsx_tag_regex.match(stripped): r"<[A-Za-z]"
jsx_tag_match(stripped) ==
    Len(stripped) >= 2 /\ stripped[1] = "<" /\ isalpha(stripped[2])

\* the tag name r"</?([X][a-zA-Z0-9]*)" captures at the start of stripped, where
\* the first letter is of class First; None when there is no match
tag_name_match(stripped, First) ==
    LET k == IF Len(stripped) >= 2 /\ stripped[2] = "/" THEN 3 ELSE 2
    IN  IF Len(stripped) >= k /\ stripped[1] = "<" /\ stripped[k] \in First
        THEN SubSeq(stripped, k, k + RunLen(stripped, k + 1, Lower \cup Upper \cup Digits))
        ELSE None

jsx_component_match(stripped) == tag_name_match(stripped, Upper)
html_tag_match(stripped) == tag_name_match(stripped, Lower)

\* re.compile(rf'(<{name}[^>]*>)(.*?)(</{name}>)').search(s) from index `from`:
\* gt is the index of the '>' that ends group 1, close the index at which
\* group 3 starts
jsx_pair_search(s, name, from) ==
    LET open == <<"<">> \o name
        close == <<"<","/">> \o name \o <<">">>
        cands == {k \in from..Len(s) :
            /\ StartsWithAt(s, open, k)
            /\ LET g == find(s, <<">">>, k + Len(open))
               IN  g # 0 /\ find(s, close, g + 1) # 0}
    IN  IF cands = {} THEN [found |-> FALSE, start |-> 0, gt |-> 0, close |-> 0, end |-> 0]
        ELSE LET k == Min(cands)
                 g == find(s, <<">">>, k + Len(open))
                 c == find(s, close, g + 1)
             IN  [found |-> TRUE, start |-> k, gt |-> g, close |-> c,
                  end |-> c + Len(close) - 1]

\* re.match(r"^(#{1,6})\s+(.+)$", stripped): group 2, or None
header_match(stripped) ==
    LET h == RunLen(stripped, 1, {"#"})
        w == RunLen(stripped, h + 1, Whitespace)
    IN  IF h >= 1 /\ h <= HEADER_MAX_HASHES /\ w >= 1 /\ h + w < Len(stripped)
        THEN Drop(stripped, h + w)
        ELSE None

\* re.match(r"^(#{1,6})\s+", line): group 0, or None
header_prefix_match(line) ==
    LET h == RunLen(line, 1, {"#"})
        w == RunLen(line, h + 1, Whitespace)
    IN  IF h >= 1 /\ h <= HEADER_MAX_HASHES /\ w >= 1
        THEN Take(line, h + w)
        ELSE None

\* the first prefix of list_prefixes that s starts with, or None
list_prefix_of(s) ==
    LET hits == {k \in 1..Len(list_prefixes) : startswith(s, list_prefixes[k])}
    IN  IF hits = {} THEN None ELSE list_prefixes[Min(hits)]

\* ------------------------------------------------ pass 1: the classifier

\* the parser flags of translate_mdx
Flags(in_c, in_f, in_j, lang) ==
    [in_code |-> in_c, in_frontmatter |-> in_f, in_jsx_multiline |-> in_j,
     code_block_lang |-> lang]

InitialFlags == Flags(FALSE, FALSE, FALSE, None)

Skip(st) == [st |-> st, units |-> << >>]

\* Emit appending the unit twice
Emit_twice(st, unit) == [st |-> st, units |-> <<unit, unit>>]

\* texts_to_translate.append(unit); continue
Emit(st, unit) == [st |-> st, units |-> <<unit>>]

\* a front-matter line (in_frontmatter is set)
frontmatter_line(i, line, st) ==
    LET stripped == strip(line)
        m == title_search(line)
        title == m.group1
        emoji_prefix == emoji_match(title)
        title_clean == strip(remove_glyphs(title))
    IN  IF stripped = DASHES
        THEN Skip([st EXCEPT !.in_frontmatter = FALSE])
        ELSE IF contains(line, TITLE_KEY) /\ m.found /\ title_clean # << >>
        THEN Emit(st, <<i, title_clean, "title", emoji_prefix>>)
        ELSE Skip(st)

\* a line that opens or closes a fenced code block
fence_line(i, line, st) ==
    IF ~st.in_code
    THEN Skip([st EXCEPT !.in_code = TRUE,
                         !.code_block_lang = code_lang_match(strip(line))])
    ELSE Skip([st EXCEPT !.in_code = FALSE, !.code_block_lang = None])

\* code_line without the test of the block's language
code_line_any_lang(i, line, st) ==
    IF strip(line) # << >>
    THEN Emit(st, <<i, line, "text_block">>)
    ELSE Skip(st)

\* a line inside a fenced code block
code_line(i, line, st) ==
    IF st.code_block_lang \in text_block_langs /\ strip(line) # << >>
    THEN Emit(st, <<i, line, "text_block">>)
    ELSE Skip(st)

\* a line that starts with a JSX or HTML tag
jsx_line(i, line, st) ==
    LET stripped == strip(line)
        unterminated == [st EXCEPT !.in_jsx_multiline =
                            IF ~endswith(stripped, <<">">>) THEN TRUE ELSE @]
        component_name == jsx_component_match(stripped)
        tag_name == html_tag_match(stripped)
    IN  IF component_name # None
        THEN IF component_name \in jsx_skip_components
             THEN Skip(unterminated)
             ELSE LET m == jsx_pair_search(stripped, component_name, 1)
                      content == strip(SubSeq(stripped, m.gt + 1, m.close - 1))
                  IN  IF m.found /\ content # << >> /\ Len(content) > JSX_CONTENT_MIN
                      THEN Emit(st, <<i, content, "jsx_single_line", component_name>>)
                      ELSE Skip(st)
        ELSE IF tag_name # None
        THEN IF tag_name \in html_content_tags THEN Skip(st) ELSE Skip(unterminated)
        ELSE Skip(unterminated)

\* a line inside an unterminated structural tag
jsx_multiline_line(i, line, st) ==
    IF contains(line, <<">">>) /\ endswith(strip(line), <<">">>)
    THEN Skip([st EXCEPT !.in_jsx_multiline = FALSE])
    ELSE Skip(st)

header_line(i, line, st) ==
    LET text == header_match(strip(line))
        text_clean == strip(remove_glyphs(text))
    IN  IF text # None /\ text_clean # << >> /\ Len(text_clean) > HEADER_TEXT_MIN
        THEN Emit(st, <<i, text_clean, "header">>)
        ELSE Skip(st)

\* list_line without the threshold on the alphabetic characters
list_line_no_threshold(i, line, st) ==
    LET stripped == strip(line)
        prefix == list_prefix_of(stripped)
    IN  Emit(st, <<i, strip(Drop(stripped, Len(prefix))), "list">>)

list_line(i, line, st) ==
    LET stripped == strip(line)
        prefix == list_prefix_of(stripped)
        text == strip(Drop(stripped, Len(prefix)))
    IN  IF alpha_count(text) >= ALPHA_MIN
        THEN Emit(st, <<i, text, "list">>)
        ELSE Skip(st)

text_line(i, line, st) ==
    LET stripped == strip(line)
    IN  IF ~(\E k \in 1..Len(stripped) : isalpha(stripped[k]))
        THEN Skip(st)
        ELSE IF word_count(stripped) >= 1 /\ alpha_count(stripped) >= ALPHA_MIN
        THEN IF contains(stripped, <<"<">>) /\ contains(stripped, <<">">>)
             THEN Emit(st, <<i, stripped, "text_with_jsx">>)
             ELSE Emit(st, <<i, stripped, "text">>)
        ELSE Skip(st)

\* one iteration of the loop of pass 1 on line i (0-based, as enumerate gives
\* it): the flags after it and the unit appended to texts_to_translate, if any
classify_line(i, line, st) ==
    LET stripped == strip(line)
    IN  IF i = 0 /\ stripped = DASHES
        THEN Skip([st EXCEPT !.in_frontmatter = TRUE])
        ELSE IF st.in_frontmatter THEN frontmatter_line(i, line, st)
        ELSE IF startswith(stripped, FENCE) THEN fence_line(i, line, st)
        ELSE IF st.in_code THEN code_line(i, line, st)
        ELSE IF jsx_tag_match(stripped) THEN jsx_line(i, line, st)
        ELSE IF st.in_jsx_multiline THEN jsx_multiline_line(i, line, st)
        ELSE IF stripped = << >> THEN Skip(st)
        ELSE IF startswith(stripped, EXPORT) THEN Skip(st)
        ELSE IF \E u \in url_prefixes : startswith(stripped, u) THEN Skip(st)
        ELSE IF stripped \in markdown_only THEN Skip(st)
        ELSE IF startswith(stripped, <<"#">>) THEN header_line(i, line, st)
        ELSE IF list_prefix_of(stripped) # None THEN list_line(i, line, st)
        ELSE text_line(i, line, st)

\* pass 1 as a whole, from line i on
RECURSIVE classify_from(_, _, _)
classify_from(lines, i, st) ==
    IF i >= Len(lines) THEN << >>
    ELSE LET r == classify_line(i, lines[i + 1], st)
         IN  r.units \o classify_from(lines, i + 1, r.st)

\* --------------------------------------------- pass 3: the reconstruction

\* the template rf'\1{translated}\3' as re.sub parses it.  A digit right after
\* \1 is read with it: \1 and two octal digits are an octal escape (one
\* character, OCTAL here), any other \1<digit> is a reference to a group the
\* pattern does not have, and re.error is raised.
OctalDigits == {"0","1","2","3","4","5","6","7"}
OCTAL == "chr(0o1dd)"

template_octal(translated) ==
    /\ Len(translated) >= 2
    /\ translated[1] \in OctalDigits
    /\ translated[2] \in OctalDigits

template_raises(translated) ==
    translated # << >> /\ translated[1] \in Digits /\ ~template_octal(translated)

\* what the template puts between the groups \1 and \3
template_text(translated) ==
    IF template_octal(translated) THEN <<OCTAL>> \o Drop(translated, 2) ELSE translated

\* pattern.sub(rf'\1{translated}\3', line) for the pattern of jsx_pair_search:
\* every non-overlapping match, left to right
RECURSIVE jsx_sub(_, _, _)
jsx_sub(line, name, translated) ==
    LET m == jsx_pair_search(line, name, 1)
    IN  IF ~m.found THEN line
        ELSE (IF template_octal(translated)
              THEN Take(line, m.start - 1) \o template_text(translated)
              ELSE Take(line, m.gt) \o translated)
                 \o SubSeq(line, m.close, m.end)
                 \o jsx_sub(Drop(line, m.end), name, translated)

\* the line appended to result_lines for a line that has an entry
\* (translated, line_type, original, extra_data) in line_translations;
\* Raised when the re.sub raises
reconstruct_line(line, entry) ==
    LET translated == entry[1]
        line_type == entry[2]
        extra_data == entry[4]
    IN  IF line_type = "title"
        THEN LET emoji_prefix == IF extra_data # None /\ extra_data # << >>
                                 THEN extra_data ELSE << >>
                 m == title_search(line)
                 new_title == emoji_prefix \o translated
             IN  IF m.found
                 THEN replace(line, <<QUOTE>> \o m.group1 \o <<QUOTE>>,
                                    <<QUOTE>> \o new_title \o <<QUOTE>>)
                 ELSE line
        ELSE IF line_type = "header"
        THEN LET prefix == header_prefix_match(line)
             IN  IF prefix # None THEN prefix \o translated ELSE line
        ELSE IF line_type = "list"
        THEN LET bullet == list_prefix_of(strip(line))
                 leading == Take(line, Len(line) - Len(lstrip(line)))
             IN  IF bullet # None THEN leading \o bullet \o translated ELSE line
        ELSE IF line_type = "text_block"
        THEN translated
        ELSE IF line_type = "jsx_single_line"
        THEN IF template_raises(translated)
             THEN Raised
             ELSE jsx_sub(line, extra_data, translated)
        ELSE translated

\* line_translations: the entries of the units zipped with the translations,
\* as a function from line index to entry (a later unit of the same line
\* replaces an earlier one)
RECURSIVE line_translations_of(_, _)
line_translations_of(units, translated_texts) ==
    IF units = << >> \/ translated_texts = << >> THEN << >>
    ELSE LET n == IF Len(units) < Len(translated_texts)
                  THEN Len(units) ELSE Len(translated_texts)
             item == units[n]
             entry == <<translated_texts[n], item[3], item[2],
                        IF Len(item) > 3 THEN item[4] ELSE None>>
             rest == line_translations_of(Take(units, n - 1), Take(translated_texts, n - 1))
         IN  [k \in DOMAIN rest \cup {item[1]} |->
                 IF k = item[1] THEN entry ELSE rest[k]]

\* result_lines
reconstruct(lines, line_translations) ==
    [k \in 1..Len(lines) |->
        IF (k - 1) \in DOMAIN line_translations
        THEN reconstruct_line(lines[k], line_translations[k - 1])
        ELSE lines[k]]

\* ------------------------------------------------- the translation cache

\* get_text_hash: the MD5 digest of the text, a key that distinguishes texts
get_text_hash(text) == <<"md5">> \o text

EmptyCache == << >>

cache_put(cache, key, value) ==
    [k \in DOMAIN cache \cup {key} |-> IF k = key THEN value ELSE cache[k]]

\* CACHE_FILE on disk: absent, unreadable as JSON, or holding a cache
NoFile == [exists |-> FALSE, valid |-> FALSE, data |-> EmptyCache]
CorruptFile == [exists |-> TRUE, valid |-> FALSE, data |-> EmptyCache]
FileOf(cache) == [exists |-> TRUE, valid |-> TRUE, data |-> cache]

\* load_cache that finds nothing
load_cache_empty(file) == EmptyCache

load_cache(file) ==
    IF file.exists /\ file.valid THEN file.data ELSE EmptyCache

\* save_cache: the file after it, by what becomes of the write ("saved";
\* "failed": open() raises and the file is as before; "truncated": the file
\* is opened, emptied, and the dump fails)
save_cache(cache, file, outcome) ==
    IF outcome = "saved" THEN FileOf(cache)
    ELSE IF outcome = "failed" THEN file
    ELSE CorruptFile

SaveOutcomes == {"saved", "failed", "truncated"}

\* ------------------------------------------------ the translation provider

\* what the provider makes of one text: a translation ("uz"), one that holds
\* a line break ("newline"), one that starts with a digit ("digit")
TranslatorNames == {"uz", "newline", "digit"}

Translate(name, text) ==
    IF name = "uz" THEN <<"Z">> \o text
    ELSE IF name = "newline" THEN <<"Z", NL>> \o text
    ELSE <<"3", " ">> \o text

MapTranslate(name, parts) == [k \in 1..Len(parts) |-> Translate(name, parts[k])]

\* the parts translated one way and the other in turn (the same text need not
\* come back the same at two places of a request)
MixTranslate(parts) ==
    [k \in 1..Len(parts) |-> Translate(IF k % 2 = 1 THEN "uz" ELSE "digit", parts[k])]

\* the translated_text of a 200 response to a request: every part translated
\* and the separators kept, or the separators lost, or one separator too many
Translations(text) ==
    LET parts == split(text, BATCH_SEPARATOR)
    IN  {join(MapTranslate(n, parts), BATCH_SEPARATOR) : n \in TranslatorNames}
          \cup {join(MixTranslate(parts), BATCH_SEPARATOR)}
          \cup {join(MapTranslate("uz", parts), <<" ">>)}
          \cup {join(MapTranslate("uz", parts), BATCH_SEPARATOR)
                    \o BATCH_SEPARATOR \o <<"Z">>}

\* a response of requests.post(...): status 200 with the field, status 200
\* without it, another status, or an exception (timeout, connection, bad JSON)
Responses(text) ==
    {[kind |-> "ok", translated_text |-> t] : t \in Translations(text)}
      \cup {[kind |-> "no_field", translated_text |-> None],
            [kind |-> "http_error", translated_text |-> None],
            [kind |-> "exception", translated_text |-> None]}

\* a response that is the provider working as intended
Faithful(text, resp) ==
    /\ resp.kind = "ok"
    /\ resp.translated_text =
          join(MapTranslate("uz", split(text, BATCH_SEPARATOR)), BATCH_SEPARATOR)

\* ------------------------------------------------------------ the history

\* a request: `text` is its payload, `texts` the texts joined into it
CallEvent(r, kind, start, texts, text, resp, ret) ==
    [type |-> kind, run |-> r, batch |-> start, texts |-> texts, text |-> text,
     outcome |-> resp.kind, ret |-> ret]

SleepEvent(r, start) ==
    [type |-> "sleep", run |-> r, batch |-> start, texts |-> << >>, text |-> << >>,
     outcome |-> "sleep", ret |-> None]

SaveEvent(r, outcome) ==
    [type |-> "save", run |-> r, batch |-> 0, texts |-> << >>, text |-> << >>,
     outcome |-> outcome, ret |-> None]

\* translation_cache[key] = value
PutEvent(r, start, key, value) ==
    [type |-> "put", run |-> r, batch |-> start, texts |-> << >>, text |-> key,
     outcome |-> "put", ret |-> value]

\* ------------------------------------------------- translate_with_tilmoch

\* the outcomes of translate_with_tilmoch(text) with the cache as given: the
\* value returned, the cache after it, the events (request, store in the
\* cache, sleep) it adds,
\* and whether the provider's response was other than a faithful translation
translate_with_tilmoch(text, cache, r, start) ==
    LET text_hash == get_text_hash(text)
    IN  IF text = << >> \/ strip(text) = << >>
        THEN {[ret |-> text, cache |-> cache, events |-> << >>, fault |-> FALSE]}
        ELSE IF text_hash \in DOMAIN cache
        THEN {[ret |-> cache[text_hash], cache |-> cache, events |-> << >>,
               fault |-> FALSE]}
        ELSE {IF resp.kind \in {"http_error", "exception"}
              THEN [ret |-> text, cache |-> cache,
                    events |-> <<CallEvent(r, "single", start, <<text>>, text, resp, text)>>,
                    fault |-> TRUE]
              ELSE LET translated == IF resp.kind = "ok" THEN resp.translated_text
                                     ELSE text
                   IN  [ret |-> translated,
                        cache |-> cache_put(cache, text_hash, translated),
                        events |-> <<CallEvent(r, "single", start, <<text>>, text,
                                               resp, translated),
                                     PutEvent(r, start, text_hash, translated),
                                     SleepEvent(r, start)>>,
                        fault |-> ~Faithful(text, resp)]
              : resp \in Responses(text)}

\* --------------------------------------------------------- translate_batch

\* results after the first loop of translate_batch: the text itself for an
\* empty text, the cached translation for a hit, None for a miss
first_results(texts, cache) ==
    [k \in 1..Len(texts) |->
        IF texts[k] = << >> \/ strip(texts[k]) = << >> THEN texts[k]
        ELSE IF get_text_hash(texts[k]) \in DOMAIN cache
        THEN cache[get_text_hash(texts[k])]
        ELSE None]

\* texts_to_translate of translate_batch: the (index, text) pairs of the misses
RECURSIVE misses_from(_, _, _)
misses_from(texts, cache, k) ==
    IF k > Len(texts) THEN << >>
    ELSE (IF texts[k] # << >> /\ strip(texts[k]) # << >>
             /\ get_text_hash(texts[k]) \notin DOMAIN cache
          THEN << <<k - 1, texts[k]>> >> ELSE << >>)
         \o misses_from(texts, cache, k + 1)

cache_misses(texts, cache) == misses_from(texts, cache, 1)

batch_texts_of(misses) == [j \in 1..Len(misses) |-> misses[j][2]]

\* assign_results with the values taken in the reverse order
assign_results_reversed(results, misses, values) ==
    [k \in 1..Len(results) |->
        LET n == Min({Len(misses), Len(values)})
            hits == {j \in 1..n : misses[j][1] = k - 1}
        IN  IF hits # {} THEN values[n + 1 - (CHOOSE j \in hits : TRUE)] ELSE results[k]]

\* results with results[idx] = values[j] for every pair of zip(misses, values),
\* the j-th miss being (idx, text)
assign_results(results, misses, values) ==
    [k \in 1..Len(results) |->
        LET hits == {j \in 1..Min({Len(misses), Len(values)}) : misses[j][1] = k - 1}
        IN  IF hits # {} THEN values[CHOOSE j \in hits : TRUE] ELSE results[k]]

\* the cache after translation_cache[hash(text_j)] = values[j] for every pair
\* of zip(misses, values), in order
RECURSIVE cache_all(_, _, _)
cache_all(cache, misses, values) ==
    IF misses = << >> \/ values = << >> THEN cache
    ELSE cache_all(cache_put(cache, get_text_hash(misses[1][2]), values[1]),
                   Tail(misses), Tail(values))

\* the stores of cache_all, in order
cache_all_events(r, start, misses, values) ==
    [j \in 1..Min({Len(misses), Len(values)}) |->
        PutEvent(r, start, get_text_hash(misses[j][2]), values[j])]

\* translated_parts: result.get("translated_text", combined_text) split on
\* the separator
parts_of(resp, combined_text) ==
    split(IF resp.kind = "ok" THEN resp.translated_text ELSE combined_text,
          BATCH_SEPARATOR)

\* split_mismatch without the comparison: the split is trusted as it comes
split_trusted(translated_parts, batch_texts) == FALSE

\* len(translated_parts) != len(batch_texts)
split_mismatch(translated_parts, batch_texts) ==
    Len(translated_parts) # Len(batch_texts)

\* ---------------------------------------------------------- the documents

\* Hello wonderful world
L_prose ==
    <<"H","e","l","l","o"," ","w","o","n","d","e","r","f","u","l"," ","w","o","r","l","d">>
\*   Indented prose line
L_indented ==
    <<" "," ","I","n","d","e","n","t","e","d"," ","p","r","o","s","e"," ","l","i","n","e">>
\* ### 🛸 Getting Started
L_header_glyph ==
    <<"#","#","#"," ",UFO," ","G","e","t","t","i","n","g"," ","S","t","a","r","t","e","d">>
\*   ## Getting Started
L_header_indented ==
    <<" "," ","#","#"," ","G","e","t","t","i","n","g"," ","S","t","a","r","t","e","d">>
\* - ok
L_list_short ==
    <<"-"," ","o","k">>
\* -  some longer list item
L_list_spaced ==
    <<"-"," "," ","s","o","m","e"," ","l","o","n","g","e","r"," ","l","i","s","t"," ","i","t","e","m">>
\* title: "🟢🛸 Hello World"
L_title_glyphs ==
    <<"t","i","t","l","e",":"," ",QUOTE,GREEN,UFO," ","H","e","l","l","o"," ","W","o","r","l","d",QUOTE>>
\* ```py
L_fence_py ==
    <<BQ,BQ,BQ,"p","y">>
\* print a line of code
L_code ==
    <<"p","r","i","n","t"," ","a"," ","l","i","n","e"," ","o","f"," ","c","o","d","e">>
\* ```text
L_fence_text ==
    <<BQ,BQ,BQ,"t","e","x","t">>
\* ```
L_fence ==
    <<BQ,BQ,BQ>>
\* <Note>3 important points</Note>
L_jsx_digit ==
    <<"<","N","o","t","e",">","3"," ","i","m","p","o","r","t","a","n","t"," ","p","o","i","n","t","s","<","/","N","o","t","e",">">>
\* <Note>Important points here</Note>
L_jsx ==
    <<"<","N","o","t","e",">","I","m","p","o","r","t","a","n","t"," ","p","o","i","n","t","s"," ","h","e","r","e","<","/","N","o","t","e",">">>
\* <Image src="a.png"
L_image_open ==
    <<"<","I","m","a","g","e"," ","s","r","c","=",QUOTE,"a",".","p","n","g",QUOTE>>
\* />
L_image_close ==
    <<"/",">">>
\* abcdefghij
L_short ==
    <<"a","b","c","d","e","f","g","h","i","j">>
\* klmnopqrst
L_last ==
    <<"k","l","m","n","o","p","q","r","s","t">>
\* </AccordionItem>
L_closing_tag ==
    <<"<","/","A","c","c","o","r","d","i","o","n","I","t","e","m",">">>
\* - [Prompting guide](u)
L_list_link ==
    <<"-"," ","[","P","r","o","m","p","t","i","n","g"," ","g","u","i","d","e","]","(","u",")">>
\* - `some code marker`
L_list_code ==
    <<"-"," ",BQ,"s","o","m","e"," ","c","o","d","e"," ","m","a","r","k","e","r",BQ>>
\* <Note>Important points here</Note><Note>b</Note>
L_jsx_two ==
    <<"<","N","o","t","e",">","I","m","p","o","r","t","a","n","t"," ","p","o","i","n","t","s"," ","h","e","r","e","<","/","N","o","t","e",">","<","N","o","t","e",">","b","<","/","N","o","t","e",">">>

\* the blocks documents are made of
Blocks ==
    { <<L_prose>>, <<L_indented>>, <<L_header_glyph>>, <<L_header_indented>>,
      <<L_list_short>>, <<L_list_spaced>>,
      <<DASHES, L_title_glyphs, DASHES>>,
      <<L_fence_py, L_code, L_fence>>, <<L_fence_text, L_list_short, L_fence>>,
      <<L_fence, L_code, L_fence>>,
      <<L_jsx_digit>>, <<L_jsx>>, <<L_image_open, L_image_close>> }

\* bounds of the model
MaxBlocks == 2
MaxFaults == 2
MaxRuns == 2
LongLines == 51

RECURSIVE Flatten(_)
Flatten(seqs) == IF seqs = << >> THEN << >> ELSE seqs[1] \o Flatten(Tail(seqs))

\* a document of more units than one batch holds: a line an earlier run may
\* have left in the cache, a line repeated, and a line of its own that falls
\* in the last batch
LongDocument ==
    <<L_prose>> \o [k \in 1..(LongLines - 2) |-> L_short] \o <<L_last>>

\* the blocks a document of more than two blocks goes on with: each adds a
\* unit to the batch
MoreBlocks == { <<L_prose>>, <<L_jsx_digit>> }

\* the documents of n blocks: any two blocks, or any block and then blocks
\* of MoreBlocks
BlockSequences(n) ==
    {bs \in [1..n -> Blocks] : n > 2 => \A k \in 2..n : bs[k] \in MoreBlocks}

DocumentLines ==
    {Flatten(bs) : bs \in UNION {BlockSequences(n) : n \in 1..MaxBlocks}}
        \cup {LongDocument}

\* a document of one line repeated, more units than one batch holds
RepeatedDocument == [k \in 1..LongLines |-> L_short]

\* the documents that are run more than once: blocks that have a unit
RunDocumentLines ==
    {Flatten(bs) : bs \in UNION {[1..n -> MoreBlocks] : n \in 1..MaxBlocks}}
        \cup {RepeatedDocument}

\* a cache file left by an earlier run that translated L_prose, and the
\* documents that have that line
EarlierFile ==
    FileOf(cache_put(EmptyCache, get_text_hash(L_prose), Translate("uz", L_prose)))

HasLine(d, line) == \E k \in 1..Len(d) : d[k] = line

CachedDocumentLines == {d \in DocumentLines : HasLine(d, L_prose)}

\* ---------------------------------------------------------------- state

VARIABLES
    mdx_content,        \* the argument of translate_mdx
    lines,              \* mdx_content.split("\n")
    pc,                 \* "pass1", "pass2", "fallback", "pass3", "done";
                        \* "main", "loop", "exit" in translate_all_mdx_files
    i,                  \* the line pass 1 is at (0-based)
    in_code, in_frontmatter, in_jsx_multiline, code_block_lang,
    texts_to_translate, \* the units of pass 1
    flags_at,           \* history: the flags at the head of each iteration
    batch_start,        \* i of range(0, len(texts), 50)
    translated_texts,
    pending,            \* the locals of translate_batch in its fallback loop
    translation_cache,
    cache_file,
    events,             \* history: the external requests and the sleeps
    batches,            \* history: the translate_batch calls that returned
    faults,             \* failures so far: responses that were no faithful
                        \* translation, and writes of the cache that failed
    result_lines,
    result,             \* what translate_mdx returned; None before; Raised
    run,
    api_key,            \* TILMOCH_API_KEY is set
    force_retranslate,
    mdx_files,          \* the documents under DOCS_DIR
    files_to_translate, \* the positions in mdx_files that were selected
    skipped_up_to_date,
    file_index,         \* how many selected documents the loop has taken
    completed, failed,
    file_outcomes,      \* history: how translate_file ended for each of them
    outputs             \* what was written for each document, None if nothing

vars ==
    <<mdx_content, lines, pc, i, in_code, in_frontmatter, in_jsx_multiline,
      code_block_lang, texts_to_translate, flags_at, batch_start,
      translated_texts, pending, translation_cache, cache_file, events,
      batches, faults, result_lines, result, run, api_key, force_retranslate,
      mdx_files, files_to_translate, skipped_up_to_date, file_index, completed,
      failed, file_outcomes, outputs>>

\* the locals of translate_all_mdx_files
driver ==
    <<api_key, force_retranslate, mdx_files, files_to_translate,
      skipped_up_to_date, file_index, completed, failed, file_outcomes, outputs>>

NoPending ==
    [texts |-> << >>, results |-> << >>, misses |-> << >>, k |-> 0, parts |-> << >>,
     cache_in |-> EmptyCache]

\* the state at the call of translate_mdx
Entry ==
    /\ lines = split(mdx_content, <<NL>>)
    /\ pc = "pass1"
    /\ i = 0
    /\ in_code = FALSE
    /\ in_frontmatter = FALSE
    /\ in_jsx_multiline = FALSE
    /\ code_block_lang = None
    /\ texts_to_translate = << >>
    /\ flags_at = << >>
    /\ batch_start = 0
    /\ translated_texts = << >>
    /\ pending = NoPending
    /\ result_lines = << >>
    /\ result = None

\* translate_mdx called on one document, outside translate_all_mdx_files
NoDriver ==
    /\ api_key = TRUE
    /\ force_retranslate = FALSE
    /\ mdx_files = << >>
    /\ files_to_translate = << >>
    /\ skipped_up_to_date = 0
    /\ file_index = 0
    /\ completed = 0
    /\ failed = 0
    /\ file_outcomes = << >>
    /\ outputs = << >>

InitWith(docs, file) ==
    /\ mdx_content \in {join(d, <<NL>>) : d \in docs}
    /\ NoDriver
    /\ cache_file = file
    /\ translation_cache = load_cache(cache_file)
    /\ events = << >>
    /\ batches = << >>
    /\ faults = 0
    /\ run = 1
    /\ Entry

\* a run that finds no cache file, or the one an earlier run left
Init ==
    \/ InitWith(DocumentLines, NoFile)
    \/ InitWith(CachedDocumentLines, EarlierFile)

\* ---------------------------------------------------------------- pass 1

ClassifyLine ==
    /\ pc = "pass1"
    /\ i < Len(lines)
    /\ LET st == Flags(in_code, in_frontmatter, in_jsx_multiline, code_block_lang)
           r == classify_line(i, lines[i + 1], st)
           units == texts_to_translate \o r.units
       IN  /\ in_code' = r.st.in_code
           /\ in_frontmatter' = r.st.in_frontmatter
           /\ in_jsx_multiline' = r.st.in_jsx_multiline
           /\ code_block_lang' = r.st.code_block_lang
           /\ texts_to_translate' = units
           /\ flags_at' = Append(flags_at, st)
           /\ i' = i + 1
           /\ pc' = IF i + 1 < Len(lines) THEN "pass1"
                    ELSE IF units = << >> THEN "pass3" ELSE "pass2"
    /\ UNCHANGED <<mdx_content, lines, batch_start, translated_texts, pending,
                   translation_cache, cache_file, events, batches, faults,
                   result_lines, result, run>>
    /\ UNCHANGED driver

\* ---------------------------------------------------------------- pass 2

\* texts: the second element of every unit
unit_texts(units) == [k \in 1..Len(units) |-> units[k][2]]

\* texts[i:] : the slice without its end
batch_at_rest(texts, start) == SubSeq(texts, start + 1, Len(texts))

\* texts[i:i+50]
batch_at(texts, start) ==
    SubSeq(texts, start + 1,
           IF start + BATCH_SIZE < Len(texts) THEN start + BATCH_SIZE ELSE Len(texts))

\* history: a call of translate_batch that returned, with the cache as it was
\* at the call and as it is at the return
BatchRecord(texts, first, misses, outcome, parts, results, cache_in, cache) ==
    [run |-> run, start |-> batch_start, texts |-> texts, first |-> first,
     misses |-> misses, outcome |-> outcome, parts |-> parts, results |-> results,
     cache_in |-> cache_in, cache |-> cache]

\* translate_batch returns `results`: the loop of translate_mdx extends
\* translated_texts and goes to the next batch, or on to pass 3
BatchReturns(results, record) ==
    /\ translated_texts' = translated_texts \o results
    /\ batches' = Append(batches, record)
    /\ batch_start' = batch_start + BATCH_SIZE
    /\ pending' = NoPending
    /\ pc' = IF batch_start + BATCH_SIZE < Len(texts_to_translate)
             THEN "pass2" ELSE "pass3"

\* one call of translate_batch, up to its return or to its fallback loop
TranslateBatch ==
    /\ pc = "pass2"
    /\ LET texts == batch_at(unit_texts(texts_to_translate), batch_start)
           first == first_results(texts, translation_cache)
           misses == cache_misses(texts, translation_cache)
           originals == batch_texts_of(misses)
           combined_text == join(originals, BATCH_SEPARATOR)
       IN  IF misses = << >>
           THEN /\ BatchReturns(first,
                        BatchRecord(texts, first, misses, "hits", << >>, first,
                                    translation_cache, translation_cache))
                /\ UNCHANGED <<translation_cache, events, faults>>
           ELSE \E resp \in Responses(combined_text) :
                LET fault == ~Faithful(combined_text, resp)
                    call == CallEvent(run, "batch", batch_start, originals,
                                      combined_text, resp, None)
                    translated_parts == parts_of(resp, combined_text)
                IN  /\ fault => faults < MaxFaults
                    /\ faults' = IF fault THEN faults + 1 ELSE faults
                    /\ IF resp.kind \in {"http_error", "exception"}
                       THEN /\ events' = Append(events, call)
                            /\ UNCHANGED translation_cache
                            /\ BatchReturns(assign_results(first, misses, originals),
                                   BatchRecord(texts, first, misses, resp.kind, << >>,
                                       assign_results(first, misses, originals),
                                       translation_cache, translation_cache))
                       ELSE IF split_mismatch(translated_parts, originals)
                       THEN /\ events' = Append(events, call)
                            /\ pending' = [texts |-> texts, results |-> first,
                                           misses |-> misses, k |-> 1,
                                           parts |-> translated_parts,
                                           cache_in |-> translation_cache]
                            /\ pc' = "fallback"
                            /\ UNCHANGED <<translation_cache, translated_texts,
                                           batches, batch_start>>
                       ELSE /\ events' = events \o <<call>>
                                       \o cache_all_events(run, batch_start, misses,
                                                           translated_parts)
                                       \o <<SleepEvent(run, batch_start)>>
                            /\ translation_cache' =
                                   cache_all(translation_cache, misses, translated_parts)
                            /\ BatchReturns(
                                   assign_results(first, misses, translated_parts),
                                   BatchRecord(texts, first, misses, "aligned",
                                       translated_parts,
                                       assign_results(first, misses, translated_parts),
                                       translation_cache,
                                       cache_all(translation_cache, misses,
                                                 translated_parts)))
    /\ UNCHANGED <<mdx_content, lines, i, in_code, in_frontmatter, in_jsx_multiline,
                   code_block_lang, texts_to_translate, flags_at, cache_file,
                   result_lines, result, run>>
    /\ UNCHANGED driver

\* one iteration of the fallback loop of translate_batch: translate_with_tilmoch
\* on the next miss, its result cached and assigned; after the last miss the
\* sleep, and translate_batch returns
TranslateIndividually ==
    /\ pc = "fallback"
    /\ LET idx == pending.misses[pending.k][1]
           text == pending.misses[pending.k][2]
       IN  \E o \in translate_with_tilmoch(text, translation_cache, run, batch_start) :
           LET results == [pending.results EXCEPT ![idx + 1] = o.ret]
               last == pending.k = Len(pending.misses)
               cache == cache_put(o.cache, get_text_hash(text), o.ret)
           IN  /\ o.fault => faults < MaxFaults
               /\ faults' = IF o.fault THEN faults + 1 ELSE faults
               /\ translation_cache' = cache
               /\ events' = events \o o.events
                               \o <<PutEvent(run, batch_start, get_text_hash(text), o.ret)>>
                               \o (IF last THEN <<SleepEvent(run, batch_start)>> ELSE << >>)
               /\ IF last
                  THEN BatchReturns(results,
                           BatchRecord(pending.texts, pending.results, pending.misses,
                                       "mismatch", pending.parts, results,
                                       pending.cache_in, cache))
                  ELSE /\ pending' = [pending EXCEPT !.k = @ + 1, !.results = results]
                       /\ UNCHANGED <<pc, translated_texts, batches, batch_start>>
    /\ UNCHANGED <<mdx_content, lines, i, in_code, in_frontmatter, in_jsx_multiline,
                   code_block_lang, texts_to_translate, flags_at, cache_file,
                   result_lines, result, run>>
    /\ UNCHANGED driver

\* ---------------------------------------------------------------- pass 3

\* the index of the first line whose reconstruction raises, 0 when none does
first_raise(rl) ==
    LET bad == {k \in 1..Len(rl) : rl[k] = Raised}
    IN  IF bad = {} THEN 0 ELSE Min(bad)

\* the rest of translate_mdx: line_translations, save_cache (when there are
\* units), the reconstruction, and the return (or the re.error)
Reconstruct ==
    /\ pc = "pass3"
    /\ IF texts_to_translate = << >>
       THEN UNCHANGED <<cache_file, faults, events>>
       ELSE \E outcome \in SaveOutcomes :
               /\ outcome # "saved" => faults < MaxFaults
               /\ faults' = IF outcome # "saved" THEN faults + 1 ELSE faults
               /\ events' = Append(events, SaveEvent(run, outcome))
               /\ cache_file' = save_cache(translation_cache, cache_file, outcome)
    /\ LET rl == reconstruct(lines,
                     line_translations_of(texts_to_translate, translated_texts))
           bad == first_raise(rl)
       IN  IF bad = 0
           THEN /\ result_lines' = rl
                /\ result' = join(rl, <<NL>>)
           ELSE /\ result_lines' = Take(rl, bad - 1)
                /\ result' = Raised
    /\ pc' = "done"
    /\ UNCHANGED <<mdx_content, lines, i, in_code, in_frontmatter, in_jsx_multiline,
                   code_block_lang, texts_to_translate, flags_at, batch_start,
                   translated_texts, pending, translation_cache, batches, run>>
    /\ UNCHANGED driver

Next == ClassifyLine \/ TranslateBatch \/ TranslateIndividually \/ Reconstruct

Spec == Init /\ [][Next]_vars

\* ------------------------------------------------------------ a later run

\* the script is started again on the same document: the module is loaded,
\* translation_cache = load_cache(), and translate_mdx is called
StartRun ==
    /\ pc = "done"
    /\ run < MaxRuns
    /\ run' = run + 1
    /\ UNCHANGED <<mdx_content, cache_file, events, batches, faults>>
    /\ UNCHANGED driver
    /\ translation_cache' = load_cache(cache_file)
    /\ lines' = split(mdx_content, <<NL>>)
    /\ pc' = "pass1"
    /\ i' = 0
    /\ in_code' = FALSE
    /\ in_frontmatter' = FALSE
    /\ in_jsx_multiline' = FALSE
    /\ code_block_lang' = None
    /\ texts_to_translate' = << >>
    /\ flags_at' = << >>
    /\ batch_start' = 0
    /\ translated_texts' = << >>
    /\ pending' = NoPending
    /\ result_lines' = << >>
    /\ result' = None

NextRuns == Next \/ StartRun

\* the first run finds no cache file
InitRuns == InitWith(RunDocumentLines, NoFile)

SpecRuns == InitRuns /\ [][NextRuns]_vars

\* ------------------------------------------------ documents line by line

\* how many lines a document of the line-by-line specification has at most
MaxLines == 3

\* the lines these documents are made of: delimiters of every parser mode,
\* and lines that more than one rule of pass 1 could take
ParseLines ==
    { DASHES, L_prose, L_header_glyph, L_fence_text, L_fence, L_image_open,
      L_image_close, L_jsx, L_jsx_two, L_list_link, L_list_code,
      L_closing_tag }

ParseDocuments == UNION {[1..n -> ParseLines] : n \in 1..MaxLines}

\* translate_mdx on any sequence of these lines, with a provider and a disk
\* that have no failure left: every response is the faithful translation
InitParse ==
    /\ mdx_content \in {join(d, <<NL>>) : d \in ParseDocuments}
    /\ NoDriver
    /\ cache_file = NoFile
    /\ translation_cache = load_cache(cache_file)
    /\ events = << >>
    /\ batches = << >>
    /\ faults = MaxFaults
    /\ run = 1
    /\ Entry

NextParse == ClassifyLine \/ TranslateBatch \/ Reconstruct

SpecParse == InitParse /\ [][NextParse]_vars

\* ------------------------------------------- translate_all_mdx_files

\* how many documents DOCS_DIR holds at most
MaxFiles == 2

\* the output of a document: none yet, older than the source, or not older
OutputStates == {"absent", "stale", "current"}

\* the documents under DOCS_DIR: one line each
FileContents == {L_prose, L_jsx_digit}

MdxFiles ==
    UNION {[1..n -> [content : FileContents, output : OutputStates]] :
               n \in 0..MaxFiles}

\* the test of the selection loop on one document
needs_translation(f, force) ==
    IF force THEN TRUE
    ELSE IF f.output = "absent" THEN TRUE
    ELSE f.output = "stale"

\* files_to_translate: the positions of the selected documents, in order
RECURSIVE select_files(_, _, _)
select_files(files, force, k) ==
    IF k > Len(files) THEN << >>
    ELSE (IF needs_translation(files[k], force) THEN <<k>> ELSE << >>)
             \o select_files(files, force, k + 1)

\* how translate_file can end
FileOutcomes == {"ok", "read_failed", "translate_failed", "write_failed"}

\* whether translate_file hands the failure to its caller: its whole body is
\* in a try whose except prints the error, so it returns in every case
propagates(outcome) == FALSE

\* the script is started: the cache is loaded, nothing is selected yet
InitFiles ==
    /\ api_key \in BOOLEAN
    /\ force_retranslate \in BOOLEAN
    /\ mdx_files \in MdxFiles
    /\ files_to_translate = << >>
    /\ skipped_up_to_date = 0
    /\ file_index = 0
    /\ completed = 0
    /\ failed = 0
    /\ file_outcomes = << >>
    /\ outputs = [k \in 1..Len(mdx_files) |-> None]
    /\ cache_file = NoFile
    /\ translation_cache = load_cache(cache_file)
    /\ events = << >>
    /\ batches = << >>
    /\ faults = 0
    /\ run = 1
    /\ mdx_content = << >>
    /\ lines = << >>
    /\ pc = "main"
    /\ i = 0
    /\ in_code = FALSE
    /\ in_frontmatter = FALSE
    /\ in_jsx_multiline = FALSE
    /\ code_block_lang = None
    /\ texts_to_translate = << >>
    /\ flags_at = << >>
    /\ batch_start = 0
    /\ translated_texts = << >>
    /\ pending = NoPending
    /\ result_lines = << >>
    /\ result = None

\* translate_all_mdx_files up to its loop: the key is tested, the documents
\* are found and selected, the counters start at 0
SelectFiles ==
    /\ pc = "main"
    /\ IF ~api_key
       THEN /\ pc' = "exit"
            /\ UNCHANGED <<files_to_translate, skipped_up_to_date>>
       ELSE LET selected == select_files(mdx_files, force_retranslate, 1)
            IN  /\ files_to_translate' = selected
                /\ skipped_up_to_date' = Len(mdx_files) - Len(selected)
                /\ pc' = IF selected = << >> THEN "exit" ELSE "loop"
    /\ completed' = 0
    /\ failed' = 0
    /\ UNCHANGED <<mdx_content, lines, i, in_code, in_frontmatter, in_jsx_multiline,
                   code_block_lang, texts_to_translate, flags_at, batch_start,
                   translated_texts, pending, translation_cache, cache_file,
                   events, batches, faults, result_lines, result, run, api_key,
                   force_retranslate, mdx_files, file_index, file_outcomes,
                   outputs>>

\* translate_file is over for one document: the try of the loop counts it
FileEnds(outcome) ==
    /\ file_outcomes' = Append(file_outcomes, outcome)
    /\ completed' = IF propagates(outcome) THEN completed ELSE completed + 1
    /\ failed' = IF propagates(outcome) THEN failed + 1 ELSE failed
    /\ file_index' = file_index + 1

\* the loop takes the next document and translate_file reads it: a read that
\* fails ends translate_file, otherwise translate_mdx is called
OpenFile ==
    /\ pc = "loop"
    /\ file_index < Len(files_to_translate)
    /\ \E read \in {"read", "failed"} :
          IF read = "failed"
          THEN /\ faults < MaxFaults
               /\ faults' = faults + 1
               /\ FileEnds("read_failed")
               /\ UNCHANGED <<mdx_content, lines, pc, i, in_code, in_frontmatter,
                              in_jsx_multiline, code_block_lang, texts_to_translate,
                              flags_at, batch_start, translated_texts, pending,
                              result_lines, result>>
          ELSE /\ mdx_content' = mdx_files[files_to_translate[file_index + 1]].content
               /\ lines' = split(mdx_content', <<NL>>)
               /\ pc' = "pass1"
               /\ i' = 0
               /\ in_code' = FALSE
               /\ in_frontmatter' = FALSE
               /\ in_jsx_multiline' = FALSE
               /\ code_block_lang' = None
               /\ texts_to_translate' = << >>
               /\ flags_at' = << >>
               /\ batch_start' = 0
               /\ translated_texts' = << >>
               /\ pending' = NoPending
               /\ result_lines' = << >>
               /\ result' = None
               /\ UNCHANGED <<faults, file_outcomes, completed, failed, file_index>>
    /\ UNCHANGED <<translation_cache, cache_file, events, batches, run, api_key,
                   force_retranslate, mdx_files, files_to_translate,
                   skipped_up_to_date, outputs>>

\* translate_mdx is over: translate_file writes what it returned (a failure
\* to create the directory or the file leaves no output), or catches what it
\* raised, and the loop goes on
CloseFile ==
    /\ pc = "done"
    /\ file_index < Len(files_to_translate)
    /\ \E outcome \in FileOutcomes \ {"read_failed"} :
          /\ (outcome = "translate_failed") <=> (result = Raised)
          /\ outcome = "write_failed" => faults < MaxFaults
          /\ faults' = IF outcome = "write_failed" THEN faults + 1 ELSE faults
          /\ outputs' = IF outcome = "ok"
                        THEN [outputs EXCEPT ![files_to_translate[file_index + 1]] = result]
                        ELSE outputs
          /\ FileEnds(outcome)
    /\ pc' = "loop"
    /\ UNCHANGED <<mdx_content, lines, i, in_code, in_frontmatter, in_jsx_multiline,
                   code_block_lang, texts_to_translate, flags_at, batch_start,
                   translated_texts, pending, translation_cache, cache_file,
                   events, batches, result_lines, result, run, api_key,
                   force_retranslate, mdx_files, files_to_translate,
                   skipped_up_to_date>>

\* the loop is over: the summary is printed
Summary ==
    /\ pc = "loop"
    /\ file_index = Len(files_to_translate)
    /\ pc' = "exit"
    /\ UNCHANGED <<mdx_content, lines, i, in_code, in_frontmatter, in_jsx_multiline,
                   code_block_lang, texts_to_translate, flags_at, batch_start,
                   translated_texts, pending, translation_cache, cache_file,
                   events, batches, faults, result_lines, result, run>>
    /\ UNCHANGED driver

NextFiles == Next \/ SelectFiles \/ OpenFile \/ CloseFile \/ Summary

SpecFiles == InitFiles /\ [][NextFiles]_vars

\* ================================================================ claims

\* the texts of a request
RequestTexts(e) == e.texts

IsCall(e) == e.type \in {"batch", "single"}

Returned == pc = "done" /\ result # Raised

\* the strings the model's provider can hand back for `text`, and `text`
\* itself (a failed call, an absent field)
ResultsFor(text) == {text} \cup Translations(text)

\* ---------------------------------------------------------------- C1

\* C1: whatever the provider does, the document translate_mdx returns has
\* exactly as many lines as the input document.
C1_LineCountInvariance ==
    Returned => Len(split(result, <<NL>>)) = Len(lines)

\* ---------------------------------------------------------------- C2

\* every unit was given back its own text
IdentityTranslation ==
    translated_texts = unit_texts(texts_to_translate)

\* C2: when every submitted text comes back unchanged, translate_mdx returns
\* a document byte-identical to its input.
C2_IdentityIdempotence ==
    (pc = "done" /\ IdentityTranslation) => result = mdx_content

\* ---------------------------------------------------------------- C3

\* C3: translate_batch returns a list as long as its input, position k holds
\* a result for text k (its translation, or the text itself) and never None;
\* so after pass 2 every unit has exactly one translated string, in order.
C3_ParallelResults ==
    /\ \A b \in 1..Len(batches) :
          /\ Len(batches[b].results) = Len(batches[b].texts)
          /\ \A k \in 1..Len(batches[b].texts) :
                /\ batches[b].results[k] # None
                /\ batches[b].results[k] \in ResultsFor(batches[b].texts[k])
    /\ pc \in {"pass3", "done"} =>
          /\ Len(translated_texts) = Len(texts_to_translate)
          /\ \A k \in 1..Len(texts_to_translate) :
                translated_texts[k] \in ResultsFor(texts_to_translate[k][2])

\* a batch of two different texts, one a cache hit and one a miss, answered
\* with an aligned translation, in a document that was returned
C3_Witness ==
    /\ Returned
    /\ \E b \in 1..Len(batches) :
          /\ batches[b].outcome = "aligned"
          /\ Len(batches[b].texts) = 2
          /\ batches[b].texts[1] # batches[b].texts[2]
          /\ Len(batches[b].misses) = 1
          /\ batches[b].results[1] # batches[b].texts[1]
          /\ batches[b].results[2] # batches[b].texts[2]

\* ---------------------------------------------------------------- C4

\* a 200 response was split into a number of parts other than the number of
\* cache-miss texts
SplitMismatch(rec) ==
    /\ rec.outcome \in {"aligned", "mismatch"}
    /\ Len(rec.parts) # Len(rec.misses)

\* C4: when the parts of a batch response are not as many as the cache-miss
\* texts, every cache-miss text is sent in a single-text call of its own (a
\* repeated text is sent once), its result is what that call returned, no
\* part of the split, and the cache holds that result under the text's hash.
C4_MismatchFallback ==
    \A b \in 1..Len(batches) :
        SplitMismatch(batches[b]) =>
            \A j \in 1..Len(batches[b].misses) :
                LET idx == batches[b].misses[j][1]
                    text == batches[b].misses[j][2]
                    value == batches[b].results[idx + 1]
                IN  /\ \E e \in 1..Len(events) :
                          /\ events[e].type = "single"
                          /\ events[e].run = batches[b].run
                          /\ events[e].batch = batches[b].start
                          /\ events[e].text = text
                          /\ events[e].ret = value
                    /\ get_text_hash(text) \in DOMAIN batches[b].cache
                    /\ batches[b].cache[get_text_hash(text)] = value

\* two different cache-miss texts whose response lost its separator: one part
\* for two texts, and neither text got that part
C4_Witness ==
    \E b \in 1..Len(batches) :
        /\ batches[b].outcome = "mismatch"
        /\ Len(batches[b].misses) = 2
        /\ Len(batches[b].parts) = 1
        /\ batches[b].misses[1][2] # batches[b].misses[2][2]
        /\ \A k \in 1..2 : batches[b].results[k] # batches[b].parts[1]

\* ---------------------------------------------------------------- C5

\* run r wrote the cache to the file
Persisted(r) ==
    \E e \in 1..Len(events) :
        events[e].type = "save" /\ events[e].run = r /\ events[e].outcome = "saved"

\* the requests of run r that hold the text t
CallsWith(r, t) ==
    {e \in 1..Len(events) :
        /\ IsCall(events[e])
        /\ events[e].run = r
        /\ \E j \in 1..Len(RequestTexts(events[e])) : RequestTexts(events[e])[j] = t}

\* the results run r gave for the text t
OutputsFor(r, t) ==
    {batches[b].results[k] : <<b, k>> \in
        {<<b, k>> \in (1..Len(batches)) \X (1..BATCH_SIZE) :
            /\ batches[b].run = r
            /\ k <= Len(batches[b].texts)
            /\ batches[b].texts[k] = t}}

\* C5 as stated: after two runs on the same text, the cache written by the
\* first and loaded by the second, there was exactly one external call for
\* the text and both runs gave the same output for it.
C5_ExactlyOneCall ==
    (run = 2 /\ pc = "done" /\ Persisted(1)) =>
        \A k \in 1..Len(texts_to_translate) :
            LET t == texts_to_translate[k][2]
            IN  /\ Cardinality(CallsWith(1, t) \cup CallsWith(2, t)) = 1
                /\ OutputsFor(1, t) = OutputsFor(2, t)

\* the first request of run r that holds t is a batch request, answered with
\* as many parts as it had texts
FirstCallAligned(r, t) ==
    /\ CallsWith(r, t) # {}
    /\ LET e == events[Min(CallsWith(r, t))]
       IN  /\ e.type = "batch"
           /\ \E b \in 1..Len(batches) :
                 /\ batches[b].run = r
                 /\ batches[b].start = e.batch
                 /\ batches[b].outcome = "aligned"

\* no request holds a text whose hash is in the cache when the request is made
NoCachedTextRequested ==
    \A e \in (Len(events) + 1)..Len(events') :
        IsCall(events'[e]) =>
            \A j \in 1..Len(RequestTexts(events'[e])) :
                get_text_hash(RequestTexts(events'[e])[j]) \notin DOMAIN translation_cache

\* the texts of a batch
TextsOf(rec) == {rec.texts[k] : k \in 1..Len(rec.texts)}

\* a text in the cache that run r wrote to the file is in no request of run
\* r + 1, is a cache hit there and gets the cached translation, which is the
\* output run r gave it (a text that occurs once in its batch); and run r
\* requested it once if its first request was answered aligned
CachedTextShortCircuits ==
    \A b1 \in 1..Len(batches) :
        LET rec1 == batches[b1]
            r == rec1.run
        IN  Persisted(r) =>
                \A t \in TextsOf(rec1) :
                    get_text_hash(t) \in DOMAIN rec1.cache =>
                        LET cached == rec1.cache[get_text_hash(t)]
                            at == {k \in 1..Len(rec1.texts) : rec1.texts[k] = t}
                        IN  /\ CallsWith(r + 1, t) = {}
                            /\ FirstCallAligned(r, t) => Cardinality(CallsWith(r, t)) = 1
                            /\ Cardinality(at) = 1 =>
                                  \A k1 \in at : rec1.results[k1] = cached
                            /\ \A b2 \in 1..Len(batches) :
                                  batches[b2].run = r + 1 =>
                                      \A k2 \in 1..Len(batches[b2].texts) :
                                          batches[b2].texts[k2] = t =>
                                              /\ batches[b2].first[k2] # None
                                              /\ batches[b2].results[k2] = cached

\* C5, amended: a text whose hash is in the cache is never included in an
\* external request; a text in the cache that one run wrote to the file
\* causes no call in the next run, which gives it the cached translation (the
\* output of the run that wrote it); and the two runs make exactly one call
\* for it when the first run's first request for it was answered with an
\* aligned response.
C5_CacheHitShortCircuit ==
    []CachedTextShortCircuits /\ [][NoCachedTextRequested]_vars

\* two runs returned, the first translated a text in an aligned batch and
\* wrote the cache, the second found it in the cache
C5_Witness ==
    /\ run = 2
    /\ Returned
    /\ Persisted(1)
    /\ \E b1, b2 \in 1..Len(batches) :
          /\ batches[b1].run = 1
          /\ batches[b1].outcome = "aligned"
          /\ batches[b2].run = 2
          /\ batches[b2].outcome = "hits"
          /\ batches[b2].texts = batches[b1].texts
          /\ batches[b2].results = batches[b1].results
          /\ batches[b1].results[1] # batches[b1].texts[1]
          /\ Cardinality(CallsWith(1, batches[b1].texts[1])) = 1

\* ---------------------------------------------------------------- C6

Max(S) == CHOOSE x \in S : \A y \in S : y <= x

\* the line (1-based) that closes the front matter, 0 when the document has
\* none; Len(lines) + 1 when it is never closed
FrontMatterEnd ==
    IF lines = << >> \/ strip(lines[1]) # DASHES THEN 0
    ELSE LET closing == {k \in 2..Len(lines) : strip(lines[k]) = DASHES}
         IN  IF closing = {} THEN Len(lines) + 1 ELSE Min(closing)

\* the fence lines of the document, as Markdown reads it
FenceLines ==
    LET last == FrontMatterEnd
        fence == {l \in {lines[k] : k \in 1..Len(lines)} : startswith(strip(l), FENCE)}
    IN  {k \in 1..Len(lines) : k > last /\ lines[k] \in fence}

\* the opening fence of the block that line k belongs to (k itself when k
\* opens a block), 0 when k is outside every fenced block; fences is FenceLines
BlockOpener(fences, k) ==
    LET before == {j \in fences : j < k}
    IN  IF Cardinality(before) % 2 = 1 THEN Max(before)
        ELSE IF k \in fences THEN k
        ELSE 0

\* line k is a fence of, or lies in, a block whose language tag is absent or
\* is none of text, md, markdown
InNonTextBlock(fences, k) ==
    /\ BlockOpener(fences, k) # 0
    /\ code_lang_match(strip(lines[BlockOpener(fences, k)])) \notin text_block_langs

\* line k (1-based) has a unit
HasUnit(k) ==
    \E n \in 1..Len(texts_to_translate) : texts_to_translate[n][1] = k - 1

\* line k came out of pass 3 as it went in
Unchanged(k) == k <= Len(result_lines) => result_lines[k] = lines[k]

\* C6: no line of a fenced block whose language tag is absent or none of
\* text/md/markdown gets a unit (so none is submitted), and every such line,
\* the fences included, is reconstructed byte-identical.
C6_CodeBlockExclusion ==
    LET fences == FenceLines
    IN  \A k \in 1..Len(lines) :
            InNonTextBlock(fences, k) => ~HasUnit(k) /\ Unchanged(k)

\* a returned document with a python block next to a line that was translated
C6_Witness ==
    /\ Returned
    /\ \E k \in 1..Len(lines) :
          /\ lines[k] = L_code
          /\ InNonTextBlock(FenceLines, k)
          /\ code_lang_match(strip(lines[BlockOpener(FenceLines, k)])) # None
          /\ result_lines[k] = L_code
    /\ \E k \in 1..Len(lines) : HasUnit(k) /\ result_lines[k] # lines[k]

\* ---------------------------------------------------------------- C7

\* the leading run of decorative glyphs of a title with the spaces after it
GlyphPrefix(title) ==
    Take(title, RunLen(title, 1, GlyphChars)
                  + RunLen(title, RunLen(title, 1, GlyphChars) + 1, Whitespace))

\* the line with the value between its first pair of quotes replaced
WithQuotedValue(line, value) ==
    LET q == find(line, <<QUOTE>>, 1)
        e == find(line, <<QUOTE>>, q + 1)
    IN  Take(line, q) \o value \o Drop(line, e - 1)

\* C7: for a title line the submitted text is the title without its leading
\* glyphs, and the reconstructed line is the original with the quoted value
\* replaced by the leading glyph sequence (and its space) and the translation.
C7_TitleRoundTrip ==
    \A n \in 1..Len(texts_to_translate) :
        texts_to_translate[n][3] = "title" =>
            LET k == texts_to_translate[n][1] + 1
                title == title_search(lines[k]).group1
            IN  /\ texts_to_translate[n][2] = Drop(title, Len(GlyphPrefix(title)))
                /\ (pc = "done" /\ k <= Len(result_lines)) =>
                      result_lines[k] =
                          WithQuotedValue(lines[k],
                                          GlyphPrefix(title) \o translated_texts[n])

\* ---------------------------------------------------------------- C8

\* C8: a line classified as Header has a cleaned text of more than 3
\* characters, that text is what is submitted, and the reconstructed line
\* ends with the '#' run, the space after it and the translation.
C8_HeaderHandling ==
    \A n \in 1..Len(texts_to_translate) :
        texts_to_translate[n][3] = "header" =>
            LET k == texts_to_translate[n][1] + 1
                stripped == strip(lines[k])
                h == RunLen(stripped, 1, {"#"})
                text == strip(remove_glyphs(Drop(stripped, h)))
            IN  /\ h \in 1..HEADER_MAX_HASHES
                /\ Len(text) > HEADER_TEXT_MIN
                /\ texts_to_translate[n][2] = text
                /\ (pc = "done" /\ k <= Len(result_lines)) =>
                      endswith(result_lines[k],
                               Take(stripped, h + 1) \o translated_texts[n])

\* ---------------------------------------------------------------- C9

\* a list item whose text after the prefix has fewer than 10 letters
ShortListItem(line) ==
    LET stripped == strip(line)
        prefix == list_prefix_of(stripped)
    IN  /\ prefix # None
        /\ alpha_count(Drop(stripped, Len(prefix))) < ALPHA_MIN

\* C9: a list-item line (a line of the document outside the front matter and
\* outside fenced blocks) with fewer than 10 letters after its prefix gets no
\* unit of any category, so it is not submitted, and is reconstructed
\* byte-identical.
C9_ListItemThreshold ==
    LET fences == FenceLines
        last == FrontMatterEnd
        short == {l \in {lines[k] : k \in 1..Len(lines)} : ShortListItem(l)}
    IN  \A k \in 1..Len(lines) :
            (/\ lines[k] \in short
             /\ k > last
             /\ BlockOpener(fences, k) = 0) =>
                ~HasUnit(k) /\ Unchanged(k)

\* a returned document with the list item '- ok' next to a longer list item
\* that was translated
C9_Witness ==
    /\ Returned
    /\ \E k \in 1..Len(lines) :
          /\ lines[k] = L_list_short
          /\ BlockOpener(FenceLines, k) = 0
          /\ result_lines[k] = L_list_short
    /\ \E n \in 1..Len(texts_to_translate) :
          /\ texts_to_translate[n][3] = "list"
          /\ translated_texts[n] # texts_to_translate[n][2]

\* ---------------------------------------------------------------- C10

FailedBatch(rec) == rec.outcome \in {"http_error", "exception"}

\* C10: when a batch call returns a non-200 status or raises, every
\* cache-miss text of the batch gets its original text, the batch makes no
\* other external call, the cache is as it was, and translate_mdx goes
\* through the remaining batches and returns a document.
C10_TransportFailure ==
    /\ \A b \in 1..Len(batches) :
          FailedBatch(batches[b]) =>
              /\ \A j \in 1..Len(batches[b].misses) :
                    batches[b].results[batches[b].misses[j][1] + 1]
                        = batches[b].misses[j][2]
              /\ Cardinality({e \in 1..Len(events) :
                        /\ IsCall(events[e])
                        /\ events[e].run = batches[b].run
                        /\ events[e].batch = batches[b].start}) = 1
              /\ batches[b].cache = batches[b].cache_in
    /\ (pc = "done" /\ \E b \in 1..Len(batches) : FailedBatch(batches[b])) =>
          /\ Len(translated_texts) = Len(texts_to_translate)
          /\ result # Raised

\* ---------------------------------------------------------------- C11

\* the documents translate_file has ended for with the given outcomes
EndedWith(outcomes) ==
    {k \in 1..Len(file_outcomes) : file_outcomes[k] \in outcomes}

\* C11: a document whose reading, translation or writing failed is counted
\* in failed and not in completed, the loop goes on with the next document,
\* and at the end completed + failed is the number of selected documents.
C11_FailureAccounting ==
    /\ failed = Cardinality(EndedWith(FileOutcomes \ {"ok"}))
    /\ completed = Cardinality(EndedWith({"ok"}))
    /\ (pc = "exit" /\ api_key) => completed + failed = Len(files_to_translate)

\* ---------------------------------------------------------------- C12

\* C12: after every external call, batch or single and whatever its outcome,
\* the delay elapses before the next external call: between any two calls
\* there is a sleep.
C12_RateLimitPacing ==
    \A a \in 1..Len(events) : \A b \in (a + 1)..Len(events) :
        (IsCall(events[a]) /\ IsCall(events[b])) =>
            \E s \in (a + 1)..(b - 1) : events[s].type = "sleep"

\* ---------------------------------------------------------------- C13

\* how many of the three mode flags are set
ActiveModes(st) ==
    Cardinality({m \in {"in_frontmatter", "in_code", "in_jsx_multiline"} : st[m]})

\* C13: at every line of the classification at most one of in_frontmatter,
\* in_code and in_jsx_multiline is set.
C13_ExclusiveModes ==
    /\ \A k \in 1..Len(flags_at) : ActiveModes(flags_at[k]) <= 1
    /\ ActiveModes(Flags(in_code, in_frontmatter, in_jsx_multiline,
                         code_block_lang)) <= 1

\* ---------------------------------------------------------------- C14

\* the flags after line k (1-based) was classified
FlagsAfter(k) ==
    IF k < Len(flags_at) THEN flags_at[k + 1]
    ELSE Flags(in_code, in_frontmatter, in_jsx_multiline, code_block_lang)

\* line k, met in the default mode, is a tag line that does not end with '>',
\* and the structural-block mode is entered
OpensStructuralBlock(k) ==
    /\ k <= Len(flags_at)
    /\ ActiveModes(flags_at[k]) = 0
    /\ jsx_tag_match(strip(lines[k]))
    /\ ~endswith(strip(lines[k]), <<">">>)
    /\ FlagsAfter(k).in_jsx_multiline

\* no line from k + 1 to j ends with '>'
NotClosedUpTo(k, j) ==
    \A l \in (k + 1)..j : ~endswith(strip(lines[l]), <<">">>)

\* C14: after a line opened a structural tag without closing it, and until
\* a line ending with '>' closes it, no line gets a unit, no other parser
\* mode is entered, and every such line is byte-identical in the output.
C14_StructuralBlockSkipping ==
    \A k \in 1..Len(flags_at) :
        OpensStructuralBlock(k) =>
            \A j \in (k + 1)..Len(flags_at) :
                NotClosedUpTo(k, j) =>
                    /\ ~HasUnit(j)
                    /\ FlagsAfter(j) = FlagsAfter(k)
                    /\ Unchanged(j)

\* ---------------------------------------------------------------- C15

\* no store of a run gives a key a value other than the one an earlier
\* store of that run gave it
StoresAgree ==
    \A a \in 1..Len(events) : \A b \in (a + 1)..Len(events) :
        (/\ events[a].type = "put"
         /\ events[b].type = "put"
         /\ events[a].run = events[b].run
         /\ events[a].text = events[b].text) => events[a].ret = events[b].ret

\* within a run every key of the cache stays, with its value
CacheKeeps ==
    run' = run =>
        \A key \in DOMAIN translation_cache :
            /\ key \in DOMAIN translation_cache'
            /\ translation_cache'[key] = translation_cache[key]

\* C15: within a run the cache is append-only: a key once present is never
\* removed and its value is never overwritten with another value, also when
\* a text occurs more than once among the cache misses of one batch.
C15_CacheAppendOnly == []StoresAgree /\ [][CacheKeeps]_vars

\* ---------------------------------------------------------------- C16

\* C16: the units pass 1 builds have strictly increasing line indices, each
\* the index of a line pass 1 has been through: a line index occurs in at
\* most one unit, so a line gets at most one category.
C16_OrderedUnits ==
    /\ \A n \in 1..Len(texts_to_translate) :
          /\ texts_to_translate[n][1] \in 0..(i - 1)
          /\ n > 1 => texts_to_translate[n - 1][1] < texts_to_translate[n][1]
    /\ \A k \in 1..Len(lines) :
          Cardinality({n \in 1..Len(texts_to_translate) :
                          texts_to_translate[n][1] = k - 1}) <= 1

\* pass 1 is over and gave units of two categories, one of them for a list
\* line that the prose rule would take as well
C16_Witness ==
    /\ pc = "done"
    /\ \E n \in 1..Len(texts_to_translate) :
          /\ texts_to_translate[n][3] = "list"
          /\ lines[texts_to_translate[n][1] + 1] = L_list_link
    /\ \E n \in 1..Len(texts_to_translate) :
          texts_to_translate[n][3] = "jsx_single_line"

\* ---------------------------------------------------------------- C17

\* ceil(n / BATCH_SIZE)
BatchesFor(n) == (n + BATCH_SIZE - 1) \div BATCH_SIZE

\* the batch requests, in order
BatchCalls == SelectSeq(events, LAMBDA e : e.type = "batch")

\* the texts of the units that were cache misses when pass 2 began, in order
MissTexts ==
    LET cache == batches[1].cache_in
        miss(t) == strip(t) # << >> /\ get_text_hash(t) \notin DOMAIN cache
    IN  SelectSeq(unit_texts(texts_to_translate), miss)

\* texts k*50+1 .. k*50+50 of a list (fewer at its end)
Group(texts, k) ==
    SubSeq(texts, k * BATCH_SIZE + 1, Min({(k + 1) * BATCH_SIZE, Len(texts)}))

\* C17 as stated: the cache-miss units are grouped, in order, into batches of
\* 50 (the last may be smaller) and one batch call is issued per batch: M
\* cache-miss units cause ceil(M / 50) batch calls, none of more than 50 texts.
C17_BatchesOfMisses ==
    (pc \in {"pass3", "done"} /\ texts_to_translate # << >>) =>
        /\ Len(BatchCalls) = BatchesFor(Len(MissTexts))
        /\ \A c \in 1..Len(BatchCalls) :
              /\ Len(BatchCalls[c].texts) <= BATCH_SIZE
              /\ BatchCalls[c].texts = Group(MissTexts, c - 1)

\* the batch requests of the batch that began at unit `start`
BatchCallsAt(start) ==
    SelectSeq(events, LAMBDA e : e.type = "batch" /\ e.batch = start)

\* C17: the units of a document, cache hits included, are grouped in order
\* into batches of 50 (the last may be smaller); a batch causes one batch
\* call when it has a cache miss at its turn and none otherwise, the call
\* carries the batch's cache misses, in order; so N units cause at most
\* ceil(N / 50) batch calls and no call carries more than 50 texts.
C17_BatchesOfUnits ==
    /\ \A b \in 1..Len(batches) :
          LET rec == batches[b]
              calls == BatchCallsAt(rec.start)
          IN  /\ rec.start = (b - 1) * BATCH_SIZE
              /\ rec.texts = Group(unit_texts(texts_to_translate), b - 1)
              /\ Len(rec.texts) <= BATCH_SIZE
              /\ Len(calls) = IF rec.misses = << >> THEN 0 ELSE 1
              /\ \A c \in 1..Len(calls) :
                    /\ Len(calls[c].texts) <= BATCH_SIZE
                    /\ calls[c].texts =
                          SelectSeq(rec.texts,
                              LAMBDA t : /\ strip(t) # << >>
                                         /\ get_text_hash(t) \notin DOMAIN rec.cache_in)
    /\ Len(BatchCalls) <= BatchesFor(Len(texts_to_translate))
    /\ (pc \in {"pass3", "done"} /\ texts_to_translate # << >>) =>
          Len(batches) = BatchesFor(Len(texts_to_translate))

\* a document of more than 50 units whose first batch has a cache hit: the
\* first call carries fewer than 50 texts and the last batch has a call too
C17_Witness ==
    /\ pc = "done"
    /\ Len(batches) = 2
    /\ Len(batches[1].texts) = BATCH_SIZE
    /\ batches[1].misses # << >>
    /\ Len(batches[1].misses) < BATCH_SIZE
    /\ Len(BatchCalls) = 2

\* ---------------------------------------------------------------- C18

\* the text begins with a link marker or a code marker
BeginsWithMarker(text) ==
    startswith(text, <<"[">>) \/ startswith(text, <<BQ>>)

\* a list item whose text after the prefix begins with such a marker
MarkerListItem(line) ==
    LET stripped == strip(line)
        prefix == list_prefix_of(stripped)
    IN  /\ prefix # None
        /\ BeginsWithMarker(strip(Drop(stripped, Len(prefix))))

\* C18: a unit of category ListItem has at least 10 letters after the bullet
\* and its text does not begin with a link marker or a code marker; a list
\* item (met in the default mode) whose text begins with such a marker gets
\* no unit and is not submitted.
C18_ListItemMarkers ==
    /\ \A n \in 1..Len(texts_to_translate) :
          texts_to_translate[n][3] = "list" =>
              /\ alpha_count(texts_to_translate[n][2]) >= ALPHA_MIN
              /\ ~BeginsWithMarker(texts_to_translate[n][2])
    /\ \A k \in 1..Len(flags_at) :
          (ActiveModes(flags_at[k]) = 0 /\ MarkerListItem(lines[k])) => ~HasUnit(k)

\* ---------------------------------------------------------------- C19

\* the line with the inner text of its first opening/closing pair of tags
\* `name` replaced by `translated`, everything else as it is
WithInnerText(line, name, translated) ==
    LET m == jsx_pair_search(line, name, 1)
    IN  Take(line, m.gt) \o translated \o Drop(line, m.close - 1)

\* C19: for a line classified as ComponentInline, the output line is the
\* input line with the inner text of the one matched pair of tags replaced
\* by the translation; the tags, their attributes and all other text of the
\* line (a further pair of the same name included) are unchanged.
C19_InlineReinsertion ==
    pc = "done" =>
        \A n \in 1..Len(texts_to_translate) :
            texts_to_translate[n][3] = "jsx_single_line" =>
                LET k == texts_to_translate[n][1] + 1
                IN  /\ k <= Len(result_lines)
                    /\ result_lines[k] =
                          WithInnerText(lines[k], texts_to_translate[n][4],
                                        translated_texts[n])

\* ---------------------------------------------------------------- C20

\* the store p has the value a status-200 response gave its text: what a
\* single-text call before it returned, or the part of its text in the
\* aligned response of its batch
FromSuccessfulResponse(p) ==
    \/ \E c \in 1..(p - 1) :
          /\ events[c].type = "single"
          /\ events[c].run = events[p].run
          /\ events[c].outcome \in {"ok", "no_field"}
          /\ get_text_hash(events[c].text) = events[p].text
          /\ events[c].ret = events[p].ret
    \/ \E b \in 1..Len(batches) :
          /\ batches[b].run = events[p].run
          /\ batches[b].start = events[p].batch
          /\ batches[b].outcome = "aligned"
          /\ \E j \in 1..Len(batches[b].misses) :
                /\ get_text_hash(batches[b].misses[j][2]) = events[p].text
                /\ batches[b].parts[j] = events[p].ret

\* the single-text calls that failed: another status, a timeout, an exception
FailedSingleCalls ==
    {c \in 1..Len(events) :
        events[c].type = "single" /\ events[c].outcome \in {"http_error", "exception"}}

\* C20: every cache entry was produced by a successful (status 200) response
\* for its text; a unit whose single-text call failed and that fell back to
\* its original text leaves no cache entry.
C20_FailedNeverCached ==
    /\ \A p \in 1..Len(events) :
          events[p].type = "put" => FromSuccessfulResponse(p)
    /\ \A c \in FailedSingleCalls :
          \A p \in (c + 1)..Len(events) :
              ~(/\ events[p].type = "put"
                /\ events[p].text = get_text_hash(events[c].text)
                /\ events[p].ret = events[c].text)

\* ---------------------------------------------------------------- C21

\* the line is a closing tag and nothing else: '</', a name of letters and
\* digits that begins with a letter, '>'
ClosingTagLine(line) ==
    LET stripped == strip(line)
        n == Len(stripped)
    IN  /\ n >= 4
        /\ stripped[1] = "<"
        /\ stripped[2] = "/"
        /\ isalpha(stripped[3])
        /\ \A k \in 3..(n - 1) : isalnum(stripped[k])
        /\ stripped[n] = ">"

\* C21: a line that is only a closing tag (outside the front matter and the
\* fenced blocks), whatever the length of the tag name, gets no unit, is not
\* submitted, and is byte-identical in the output.
C21_ClosingTagLines ==
    LET fences == FenceLines
        last == FrontMatterEnd
        closing == {l \in {lines[k] : k \in 1..Len(lines)} : ClosingTagLine(l)}
    IN  \A k \in 1..Len(lines) :
            (/\ lines[k] \in closing
             /\ k > last
             /\ BlockOpener(fences, k) = 0) =>
                ~HasUnit(k) /\ Unchanged(k)

====
